---- MODULE Spec2Model ----
(***************************************************************************)
(* Model of the onboarding flow: App (screen selection), WelcomeScreen,    *)
(* AvatarPage / Avatar3D and TrainingScreen, and of the narration sessions *)
(* they run (playElevenLabsAudio / playGreeting, showSubtitlesWithAudio).  *)
(*                                                                         *)
(* Every asynchronous continuation of the source (the code between two     *)
(* awaits, a timer callback, an event handler together with the effects    *)
(* its state updates trigger) is one action.  Time is not modelled: timers *)
(* and promises resolve in any order.                                      *)
(***************************************************************************)
EXTENDS Integers, Sequences, FiniteSets, TLC

\* ------------------------------------------------------------------ bounds
MaxSessions == 4   \* narration sessions started in one run
MaxPerInst  == 2   \* narration sessions started by one WelcomeScreen instance
MaxInst     == 4   \* screen component instances mounted in one run
MaxTaps     == 2   \* taps on the initial screen whose audio-mode call is pending
MaxChunks   == 2   \* chunks of a narration the subtitle sequence walks through
MaxWords    == 5   \* words of a text handed to the subtitle pipeline on its own
MaxPending  == 1   \* payloads posted to the WebView and not yet dispatched

\* ------------------------------------------------------- program constants
ChunkThreshold == 50
CountdownStart == 3
GapMs == 100

UNDEF == "<undefined>"

Sessions  == 1..MaxSessions
Instances == 1..MaxInst

\* ------------------------------------------------------------ text helpers
\* text.split(" "): the maximal space-free pieces, empty pieces included
\* the positions of the spaces of text[lo..hi], ascending
RECURSIVE SpacesOf(_, _, _)
SpacesOf(text, lo, hi) ==
  IF lo > hi THEN <<>>
  ELSE IF lo = hi THEN (IF SubSeq(text, lo, lo) = " " THEN <<lo>> ELSE <<>>)
  ELSE LET mid == (lo + hi) \div 2
       IN SpacesOf(text, lo, mid) \o SpacesOf(text, mid + 1, hi)

split(text) ==
  LET sp == SpacesOf(text, 1, Len(text))
      n  == Len(sp)
      from(k) == IF k = 1 THEN 1 ELSE sp[k - 1] + 1
      to(k)   == IF k = n + 1 THEN Len(text) ELSE sp[k] - 1
  IN [k \in 1..(n + 1) |-> SubSeq(text, from(k), to(k))]

\* mutant of ChunkWords: the length test looks at the chunk built so far, not at
\* the chunk extended by the word
RECURSIVE ChunkWords_LateCut(_, _, _, _)
ChunkWords_LateCut(words, k, chunks, currentChunk) ==
  IF k > Len(words)
  THEN IF currentChunk # "" THEN Append(chunks, currentChunk) ELSE chunks
  ELSE LET word      == words[k]
           testChunk == IF currentChunk # "" THEN currentChunk \o " " \o word ELSE word
       IN IF Len(currentChunk) > ChunkThreshold /\ currentChunk # ""
          THEN ChunkWords_LateCut(words, k + 1, Append(chunks, currentChunk), word)
          ELSE ChunkWords_LateCut(words, k + 1, chunks, testChunk)

\* mutant of ChunkWords: the last chunk is pushed without the test for ""
RECURSIVE ChunkWords_PushEmpty(_, _, _, _)
ChunkWords_PushEmpty(words, k, chunks, currentChunk) ==
  IF k > Len(words)
  THEN Append(chunks, currentChunk)
  ELSE LET word      == words[k]
           testChunk == IF currentChunk # "" THEN currentChunk \o " " \o word ELSE word
       IN IF Len(testChunk) > ChunkThreshold /\ currentChunk # ""
          THEN ChunkWords_PushEmpty(words, k + 1, Append(chunks, currentChunk), word)
          ELSE ChunkWords_PushEmpty(words, k + 1, chunks, testChunk)

\* the body of words.forEach in splitIntoChunks, as a fold over the words
RECURSIVE ChunkWords(_, _, _, _)
ChunkWords(words, k, chunks, currentChunk) ==
  IF k > Len(words)
  THEN IF currentChunk # "" THEN Append(chunks, currentChunk) ELSE chunks
  ELSE LET word      == words[k]
           testChunk == IF currentChunk # "" THEN currentChunk \o " " \o word ELSE word
       IN IF Len(testChunk) > ChunkThreshold /\ currentChunk # ""
          THEN ChunkWords(words, k + 1, Append(chunks, currentChunk), word)
          ELSE ChunkWords(words, k + 1, chunks, testChunk)

splitIntoChunks(text) == ChunkWords(split(text), 1, <<>>, "")

\* String.prototype.trim for the space character
RECURSIVE trim(_)
trim(s) ==
  IF s = "" THEN ""
  ELSE IF SubSeq(s, 1, 1) = " " THEN trim(SubSeq(s, 2, Len(s)))
  ELSE IF SubSeq(s, Len(s), Len(s)) = " " THEN trim(SubSeq(s, 1, Len(s) - 1))
  ELSE s

\* the first MaxChunks chunks of a narration
Take(seq, n) == SubSeq(seq, 1, IF Len(seq) < n THEN Len(seq) ELSE n)

\* ------------------------------------------------------------- narrations
introText ==
  "Hello builder, my name is Tava, I am an autonomous, multi-layered neural architecture capable of simulating human cognitive functions through deep learning algorithms and predictive modeling frameworks. My purpose is to enhance accuracy, efficiency, and innovation across digital systems.. or AI for short. What is your name?"

greetingText(firstName) ==
  "Nice to meet you " \o firstName \o ". I'm going to take you through the process of setting up your first digital sales agent. This process is quick and really fun! You will be able to customize your agent, train it on your business or brand, and send it off to find and close deals for you. Let's start with customizing your agent, your agent should be an extension of your business, much like how you birthed your business, in this case your business births the agent, let's begin."

\* the dash of the source text is written "-" here: one character either way
trainingText ==
  "Your agent looks impressive, but it still needs a brain. What sets our agents apart is that each one is built by you in real time. From the moment it's created, it learns only from the information you provide, allowing it to become a perfectly tailored salesperson designed exclusively for your business. Now it's time to train your agent-teach it everything about your company and include as much detail as possible so it can truly represent your brand."


\* audio durations getStatusAsync may report; 0 stands for "no duration"
\* (status not loaded, durationMillis missing or 0)
Durations == {0, 1000, 3000}

\* what the user may type into the name field
NameInputs == {" ", " Al Bo "}

AvatarIds == {"a1", "a2"}

\* why a session took its catch block: the synthesis response was not OK
\* ("http"), fetch or arrayBuffer threw ("transport"), or a later step threw
\* ("load": the file write, unloadAsync, createAsync, getStatusAsync, and in
\* playGreeting also setAudioModeAsync)
FailKinds == {"http", "transport", "load"}

\* the avatars the creator can export, and what their metadata endpoint holds
Metadata(id) ==
  IF id = "a2" THEN [outfitGender |-> "neutral", bodyType |-> "feminine"]
  ELSE [outfitGender |-> "masculine", bodyType |-> "masculine"]

\* voice ids
AriaVoice   == "9BWtsMINqrJLrRacOk9x"
MaleVoice   == "iP95p4xoKVk53GoZ742B"
FemaleVoice == "21m00Tcm4TlvDq8ikWAM"

\* playGreeting's choice of voice
VoiceOf(gender) == IF gender = "male" THEN MaleVoice ELSE FemaleVoice

NULL == "<null>"

\* JSON.stringify({ action: a })
JSONstringify(a) == "{\"action\":\"" \o a \o "\"}"

\* the page before its script has run
NoSurface ==
  [script |-> "loading", avatar |-> "none", dance |-> "none", talk |-> "none",
   mixer |-> FALSE, camera |-> "full", clip |-> "none",
   heard |-> "",       \* event.data of the last message the listener was run on
   raised |-> FALSE]   \* an exception left the listener

NoCall ==
  [pc |-> "idle", text |-> "", D |-> 0, chunks |-> <<>>, i |-> 0,
   shown |-> <<>>,     \* the delays of the chunks' timers
   display |-> <<>>,   \* the values handed to setCurrentSubtitle, in order
   gaps |-> <<>>]      \* the delays of the timers between chunks

\* ------------------------------------------------------------------ state
VARIABLES
  showWelcome, showTraining, avatarId, userName,   \* App
  inst,             \* number of screen component instances mounted so far
  cur,              \* the mounted instance (0: the avatar creator is shown)
  stage, countdown, currentSubtitle, name, isProcessing,  \* WelcomeScreen / TrainingScreen
  subtitleOpacity,  \* Animated value: 0 or 1 (animation end points)
  fadeOwner,        \* session whose fade-out animation runs on subtitleOpacity (0: none)
  pendingTaps,      \* handleInitialClick calls awaiting Audio.setAudioModeAsync
  accepted, greetingComplete,   \* AvatarPage
  hasPlayedGreeting,            \* Avatar3D
  error,            \* Avatar3D: the error banner's text (NULL: none)
  loading,          \* Avatar3D: the loading overlay is shown
  avatarGender,     \* Avatar3D: "male" or "female"
  genderPending,    \* Avatar3D: detectGender's request is in flight
  surface,          \* the WebView page of the mounted Avatar3D
  toSurface,        \* payloads posted to the WebView, not yet dispatched in the page
  toHost,           \* messages the page posted, not yet handled by Avatar3D's onMessage
  soundRef,         \* soundRef.current of each instance (0: null), a session's sound
  nSess,            \* sessions started so far
  sess,             \* the sessions
  call              \* a text handed to the subtitle pipeline on its own (FnSpec)

appVars  == <<showWelcome, showTraining, avatarId, userName>>
sVars    == <<error, loading, avatarGender, genderPending, surface, toSurface, toHost>>
instVars == <<inst, cur, stage, countdown, currentSubtitle, name, isProcessing,
              subtitleOpacity, fadeOwner, pendingTaps, accepted, greetingComplete,
              hasPlayedGreeting, sVars>>
vars == <<showWelcome, showTraining, avatarId, userName, inst, cur, stage, countdown,
          currentSubtitle, name, isProcessing, subtitleOpacity, fadeOwner, pendingTaps,
          accepted, greetingComplete, hasPlayedGreeting, error, loading,
          avatarGender, genderPending, surface, toSurface, toHost, soundRef, nSess, sess, call>>

NoSession ==
  [kind |-> "none", inst |-> 0, pc |-> "idle", fail |-> "none", fin |-> 0,
   snd |-> "none", prev |-> 0, sub |-> 0, chunks |-> <<>>, firstName |-> "",
   voice |-> "", dur |-> "unknown"]

\* a session at its first await: playElevenLabsAudio awaits fetch, playGreeting
\* awaits Audio.setAudioModeAsync
NewSession(kind, i, chunks, firstName) ==
  [NoSession EXCEPT !.kind = kind, !.inst = i,
                    !.pc = IF kind = "avatar" THEN "mode" ELSE "fetch",
                    !.voice = IF kind = "avatar" THEN VoiceOf(avatarGender) ELSE AriaVoice,
                    !.chunks = Take(chunks, MaxChunks), !.firstName = firstName]

\* the screen App renders
Screen(sw, st, av) ==
  IF st THEN "training"
  ELSE IF sw THEN "welcome"
  ELSE IF av # UNDEF /\ av # "" THEN "avatar"
  ELSE "creator"

CurScreen == Screen(showWelcome, showTraining, avatarId)

Mounted(s) == sess[s].inst = cur

\* room for one more session of the mounted instance
CanStart ==
  /\ nSess < MaxSessions
  /\ Cardinality({t \in Sessions : sess[t].inst = cur}) < MaxPerInst

TypeOK ==
  /\ showWelcome \in BOOLEAN /\ showTraining \in BOOLEAN
  /\ avatarId \in {UNDEF, ""} \cup AvatarIds
  /\ inst \in 1..MaxInst /\ cur \in 0..MaxInst
  /\ stage \in {"none", "initial", "countdown", "speaking", "input", "continue"}
  /\ countdown \in 0..CountdownStart
  /\ subtitleOpacity \in {0, 1}
  /\ fadeOwner \in 0..MaxSessions
  /\ pendingTaps \in 0..MaxTaps
  /\ nSess \in 0..MaxSessions
  /\ \A s \in Sessions : sess[s].fin \in 0..2

ProgInit ==
  /\ showWelcome = TRUE /\ showTraining = FALSE
  /\ avatarId = UNDEF /\ userName = UNDEF
  /\ inst = 1 /\ cur = 1
  /\ stage = "initial" /\ countdown = CountdownStart
  /\ currentSubtitle = "" /\ name = "" /\ isProcessing = FALSE
  /\ subtitleOpacity = 0 /\ fadeOwner = 0 /\ pendingTaps = 0
  /\ accepted = FALSE /\ greetingComplete = FALSE /\ hasPlayedGreeting = FALSE
  /\ error = NULL /\ loading = FALSE /\ avatarGender = "male" /\ genderPending = FALSE
  /\ surface = NoSurface /\ toSurface = <<>> /\ toHost = <<>>
  /\ soundRef = [i \in Instances |-> 0]
  /\ nSess = 0
  /\ sess = [s \in Sessions |-> NoSession]

Init == ProgInit /\ call = NoCall

\* ------------------------------------------------- mounting and unmounting
\* the unmount cleanup of WelcomeScreen / TrainingScreen: unload soundRef.current
\* (AvatarPage / Avatar3D register no cleanup)
Cleanup(sess1) ==
  IF cur # 0 /\ CurScreen \in {"welcome", "training"} /\ soundRef[cur] # 0
  THEN [sess1 EXCEPT ![soundRef[cur]].snd =
          IF @ \in {"playing", "finished"} THEN "unloaded" ELSE @]
  ELSE sess1

\* the rendered screen changes to new: the old component unmounts, the new one
\* mounts with its initial state; TrainingScreen starts its narration on mount
Remount(new, sess1) ==
  /\ IF new = "creator"
     THEN inst' = inst /\ cur' = 0
     ELSE inst < MaxInst /\ inst' = inst + 1 /\ cur' = inst + 1
  /\ stage' = IF new = "welcome" THEN "initial"
              ELSE IF new = "training" THEN "speaking" ELSE "none"
  /\ countdown' = CountdownStart
  /\ currentSubtitle' = "" /\ name' = "" /\ isProcessing' = FALSE
  /\ subtitleOpacity' = 0 /\ fadeOwner' = 0 /\ pendingTaps' = 0
  /\ accepted' = FALSE /\ greetingComplete' = FALSE /\ hasPlayedGreeting' = FALSE
  /\ error' = NULL /\ loading' = (new = "avatar")
  /\ avatarGender' = "male" /\ genderPending' = (new = "avatar")
  /\ surface' = NoSurface /\ toSurface' = <<>> /\ toHost' = <<>>
  /\ IF new = "training"
     THEN /\ nSess < MaxSessions
          /\ nSess' = nSess + 1
          /\ sess' = [Cleanup(sess1) EXCEPT ![nSess + 1] =
                        NewSession("train", inst + 1, splitIntoChunks(trainingText), "")]
     ELSE nSess' = nSess /\ sess' = Cleanup(sess1)
  /\ UNCHANGED soundRef

\* App's state setters followed by the re-render
AppUpdate(sw, st, av, un, sess1) ==
  /\ showWelcome' = sw /\ showTraining' = st /\ avatarId' = av /\ userName' = un
  /\ UNCHANGED call
  /\ IF Screen(sw, st, av) = CurScreen
     THEN sess' = sess1 /\ UNCHANGED <<instVars, soundRef, nSess>>
     ELSE Remount(Screen(sw, st, av), sess1)


wVars == <<stage, countdown, currentSubtitle, name, isProcessing, subtitleOpacity,
           fadeOwner, pendingTaps>>
pVars == <<accepted, greetingComplete, hasPlayedGreeting, sVars>>

\* ---------------------------------------------------------- WelcomeScreen
\* speakIntroduction up to the first await: setStage("speaking"), chunk the
\* text, call playElevenLabsAudio
speakIntroduction ==
  /\ CanStart
  /\ stage' = "speaking"
  /\ nSess' = nSess + 1
  /\ sess' = [sess EXCEPT ![nSess + 1] =
                NewSession("intro", cur, splitIntoChunks(introText), "")]

\* a tap on the initial screen: handleInitialClick up to its await
handleInitialClick ==
  /\ CurScreen = "welcome" /\ stage = "initial"
  /\ pendingTaps < MaxTaps
  /\ pendingTaps' = pendingTaps + 1
  /\ UNCHANGED <<call, appVars, inst, cur, stage, countdown, currentSubtitle, name,
                 isProcessing, subtitleOpacity, fadeOwner, pVars, soundRef, nSess, sess>>

\* Audio.setAudioModeAsync resolves: setStage("countdown"), then the countdown
\* effect runs if stage changed (it calls speakIntroduction when countdown is 0)
AudioModeResolved ==
  /\ CurScreen = "welcome" /\ pendingTaps > 0
  /\ pendingTaps' = pendingTaps - 1
  /\ IF stage # "countdown" /\ countdown = 0
     THEN speakIntroduction
     ELSE stage' = "countdown" /\ UNCHANGED <<nSess, sess>>
  /\ UNCHANGED <<call, appVars, inst, cur, countdown, currentSubtitle, name, isProcessing,
                 subtitleOpacity, fadeOwner, pVars, soundRef>>

\* the countdown effect's timer: setCountdown(countdown - 1), then the effect
\* runs again and calls speakIntroduction at 0
CountdownTick ==
  /\ CurScreen = "welcome" /\ stage = "countdown" /\ countdown > 0
  /\ countdown' = countdown - 1
  /\ IF countdown - 1 = 0
     THEN speakIntroduction
     ELSE UNCHANGED <<stage, nSess, sess>>
  /\ UNCHANGED <<call, appVars, inst, cur, currentSubtitle, name, isProcessing,
                 subtitleOpacity, fadeOwner, pendingTaps, pVars, soundRef>>

\* the name field (rendered in stage input while not processing)
onChangeText(n) ==
  /\ CurScreen = "welcome" /\ stage = "input" /\ ~isProcessing
  /\ name' = n
  /\ UNCHANGED <<call, appVars, inst, cur, stage, countdown, currentSubtitle, isProcessing,
                 subtitleOpacity, fadeOwner, pendingTaps, pVars, soundRef, nSess, sess>>

\* mutant of handleSubmitName: the name is used as typed, not trimmed
handleSubmitName_NoTrim ==
  /\ CurScreen = "welcome" /\ stage = "input" /\ ~isProcessing
  /\ LET firstName == split(name)[1]
     IN IF name = ""
        THEN UNCHANGED <<isProcessing, nSess, sess>>
        ELSE /\ CanStart
             /\ isProcessing' = TRUE
             /\ nSess' = nSess + 1
             /\ sess' = [sess EXCEPT ![nSess + 1] =
                           NewSession("greet", cur,
                                      splitIntoChunks(greetingText(firstName)), firstName)]
  /\ UNCHANGED <<call, appVars, inst, cur, stage, countdown, currentSubtitle, name,
                 subtitleOpacity, fadeOwner, pendingTaps, pVars, soundRef>>

\* handleSubmitName up to its await (button press or keyboard submit)
handleSubmitName ==
  /\ CurScreen = "welcome" /\ stage = "input" /\ ~isProcessing
  /\ LET trimmedName == trim(name)
         firstName   == split(trimmedName)[1]
     IN IF trimmedName = ""
        THEN UNCHANGED <<isProcessing, nSess, sess>>
        ELSE /\ CanStart
             /\ isProcessing' = TRUE
             /\ nSess' = nSess + 1
             /\ sess' = [sess EXCEPT ![nSess + 1] =
                           NewSession("greet", cur,
                                      splitIntoChunks(greetingText(firstName)), firstName)]
  /\ UNCHANGED <<call, appVars, inst, cur, stage, countdown, currentSubtitle, name,
                 subtitleOpacity, fadeOwner, pendingTaps, pVars, soundRef>>

\* handleSubmitName invoked twice from one render (the Enter button's press and
\* the keyboard's submit, both before the re-render that follows
\* setIsProcessing(true)): both invocations read isProcessing = false from their
\* closure and run up to their await
handleSubmitNameTwice ==
  /\ CurScreen = "welcome" /\ stage = "input" /\ ~isProcessing
  /\ trim(name) # ""
  /\ CanStart /\ nSess + 2 <= MaxSessions
  /\ LET firstName == split(trim(name))[1]
         new == NewSession("greet", cur, splitIntoChunks(greetingText(firstName)), firstName)
     IN /\ isProcessing' = TRUE
        /\ nSess' = nSess + 2
        /\ sess' = [sess EXCEPT ![nSess + 1] = new, ![nSess + 2] = new]
  /\ UNCHANGED <<call, appVars, inst, cur, stage, countdown, currentSubtitle, name,
                 subtitleOpacity, fadeOwner, pendingTaps, pVars, soundRef>>

\* --------------------------- playElevenLabsAudio (WelcomeScreen, TrainingScreen)
IsNarration(s) == sess[s].kind \in {"intro", "greet", "train"}

\* onFinish() resolves audioPromise; the caller's continuation starts
\* fadeOutSubtitle on the instance's Animated values
Finished(s, r) ==
  /\ sess' = [sess EXCEPT ![s] = [r EXCEPT !.fin = @ + 1, !.pc = "fade"]]
  /\ fadeOwner' = IF Mounted(s) THEN s ELSE fadeOwner

\* mutant of Catch: the catch block only logs the error
Catch_LogOnly(s, why) ==
  /\ sess' = [sess EXCEPT ![s].fail = why, ![s].pc = "failed"]
  /\ UNCHANGED <<call, appVars, instVars, soundRef, nSess>>

\* mutant of Catch: the catch block sends the request again
Catch_Retry(s, why) ==
  /\ sess' = [sess EXCEPT ![s].fail = why, ![s].pc = "fetch"]
  /\ UNCHANGED <<call, appVars, instVars, soundRef, nSess>>

\* the catch block: onFinish()
Catch(s, why) ==
  /\ Finished(s, [sess[s] EXCEPT !.fail = why])
  /\ UNCHANGED <<call, appVars, inst, cur, stage, countdown, currentSubtitle, name,
                 isProcessing, subtitleOpacity, pendingTaps, pVars, soundRef, nSess>>

\* fetch resolves with a non-OK status ("http"), or fetch, arrayBuffer or
\* writeAsStringAsync throws ("transport" / "load")
FetchFail(s, why) ==
  /\ IsNarration(s) /\ sess[s].pc = "fetch"
  /\ Catch(s, why)

\* fetch resolves with an OK response, arrayBuffer resolves and the file is
\* written (none of these reads or writes the screen's state); then unload the
\* previous sound if soundRef.current is set, else start Audio.Sound.createAsync
FetchOk(s) ==
  /\ IsNarration(s) /\ sess[s].pc = "fetch"
  /\ sess' = [sess EXCEPT ![s] =
       IF soundRef[sess[s].inst] # 0
       THEN [@ EXCEPT !.pc = "unload", !.prev = soundRef[sess[s].inst]]
       ELSE [@ EXCEPT !.pc = "create"]]
  /\ UNCHANGED <<call, appVars, instVars, soundRef, nSess>>

\* the previous sound's unloadAsync resolves; createAsync starts
UnloadOk(s) ==
  /\ IsNarration(s) /\ sess[s].pc = "unload"
  /\ sess' = [sess EXCEPT ![s].pc = "create",
                          ![sess[s].prev].snd = "unloaded"]
  /\ UNCHANGED <<call, appVars, instVars, soundRef, nSess>>

\* createAsync resolves: the sound is loaded and playing; soundRef.current = sound;
\* getStatusAsync starts
CreateOk(s) ==
  /\ IsNarration(s) /\ sess[s].pc = "create"
  /\ sess' = [sess EXCEPT ![s].pc = "status", ![s].snd = "playing"]
  /\ soundRef' = [soundRef EXCEPT ![sess[s].inst] = s]
  /\ UNCHANGED <<call, appVars, instVars, nSess>>

\* mutant of StatusOk: onDurationReady is called whatever status.isLoaded is
StatusOk_AnyStatus(s, d) ==
  /\ IsNarration(s) /\ sess[s].pc = "status"
  /\ LET starts == d # 0 /\ sess[s].sub = 0
         n      == Len(sess[s].chunks)
     IN /\ sess' = [sess EXCEPT ![s].pc = "listen",
                                ![s].dur = IF d # 0 THEN "known" ELSE "none",
                                ![s].sub = IF starts /\ n > 0 THEN 1 ELSE @]
        /\ IF starts /\ Mounted(s)
           THEN /\ subtitleOpacity' = 1 /\ fadeOwner' = 0
                /\ currentSubtitle' = IF n > 0 THEN sess[s].chunks[1] ELSE currentSubtitle
           ELSE UNCHANGED <<subtitleOpacity, fadeOwner, currentSubtitle>>
  /\ UNCHANGED <<call, appVars, inst, cur, stage, countdown, name, isProcessing, pendingTaps,
                 pVars, soundRef, nSess>>

\* getStatusAsync resolves with duration d (status.isLoaded is false once the
\* sound was unloaded): onDurationReady starts the subtitle sequence
\* (showSubtitlesWithAudio up to its first await) unless subtitlesStarted, then
\* the playback status listener is registered
StatusOk(s, d) ==
  /\ IsNarration(s) /\ sess[s].pc = "status"
  /\ LET isLoaded == sess[s].snd \in {"playing", "finished"}
         starts == isLoaded /\ d # 0 /\ sess[s].sub = 0
         n      == Len(sess[s].chunks)
     IN /\ sess' = [sess EXCEPT ![s].pc = "listen",
                                ![s].dur = IF isLoaded /\ d # 0 THEN "known" ELSE "none",
                                ![s].sub = IF starts /\ n > 0 THEN 1 ELSE @]
        /\ IF starts /\ Mounted(s)
           THEN /\ subtitleOpacity' = 1 /\ fadeOwner' = 0
                /\ currentSubtitle' = IF n > 0 THEN sess[s].chunks[1] ELSE currentSubtitle
           ELSE UNCHANGED <<subtitleOpacity, fadeOwner, currentSubtitle>>
  /\ UNCHANGED <<call, appVars, inst, cur, stage, countdown, name, isProcessing, pendingTaps,
                 pVars, soundRef, nSess>>

\* mutant of LoadFail: the load steps run outside the try block
LoadFail_Uncaught(s) ==
  /\ IsNarration(s) /\ sess[s].pc \in {"unload", "create", "status"}
  /\ sess' = [sess EXCEPT ![s].fail = "load", ![s].pc = "failed"]
  /\ UNCHANGED <<call, appVars, instVars, soundRef, nSess>>

\* the previous sound's unloadAsync, createAsync or getStatusAsync throws
LoadFail(s) ==
  /\ IsNarration(s) /\ sess[s].pc \in {"unload", "create", "status"}
  /\ Catch(s, "load")

\* mutant of PlaybackFinished: the listener completes the session only once the
\* subtitle sequence has ended
PlaybackFinished_AfterSubtitles(s) ==
  /\ IsNarration(s) /\ sess[s].snd = "playing"
  /\ IF sess[s].pc = "listen" /\ sess[s].sub \in {0, 2 * Len(sess[s].chunks)}
     THEN Finished(s, [sess[s] EXCEPT !.snd = "finished"])
     ELSE sess' = [sess EXCEPT ![s].snd = "finished"] /\ UNCHANGED fadeOwner
  /\ UNCHANGED <<call, appVars, inst, cur, stage, countdown, currentSubtitle, name,
                 isProcessing, subtitleOpacity, pendingTaps, pVars, soundRef, nSess>>

\* the sound plays to its end; the status update with didJustFinish reaches the
\* listener if one is registered
PlaybackFinished(s) ==
  /\ IsNarration(s) /\ sess[s].snd = "playing"
  /\ IF sess[s].pc = "listen"
     THEN Finished(s, [sess[s] EXCEPT !.snd = "finished"])
     ELSE sess' = [sess EXCEPT ![s].snd = "finished"] /\ UNCHANGED fadeOwner
  /\ UNCHANGED <<call, appVars, inst, cur, stage, countdown, currentSubtitle, name,
                 isProcessing, subtitleOpacity, pendingTaps, pVars, soundRef, nSess>>

\* fadeOutSubtitle's animation ends (or was stopped): its promise resolves and the
\* caller arms its setTimeout
FadeDone(s) ==
  /\ IsNarration(s) /\ sess[s].pc = "fade"
  /\ sess' = [sess EXCEPT ![s].pc = "timer"]
  /\ IF fadeOwner = s
     THEN subtitleOpacity' = 0 /\ fadeOwner' = 0
     ELSE UNCHANGED <<subtitleOpacity, fadeOwner>>
  /\ UNCHANGED <<call, appVars, inst, cur, stage, countdown, currentSubtitle, name,
                 isProcessing, pendingTaps, pVars, soundRef, nSess>>

\* the caller's setTimeout fires: setStage("input") / onComplete(firstName) /
\* setStage("continue")
TimerFire(s) ==
  /\ IsNarration(s) /\ sess[s].pc = "timer"
  /\ LET done == [sess EXCEPT ![s].pc = "done"]
     IN IF sess[s].kind = "greet"
        THEN AppUpdate(FALSE, showTraining, avatarId, sess[s].firstName, done)
        ELSE /\ sess' = done
             /\ stage' = IF ~Mounted(s) THEN stage
                         ELSE IF sess[s].kind = "intro" THEN "input" ELSE "continue"
             /\ UNCHANGED <<call, appVars, inst, cur, countdown, currentSubtitle, name,
                            isProcessing, subtitleOpacity, fadeOwner, pendingTaps,
                            pVars, soundRef, nSess>>

\* ------------------------------------------------- showSubtitlesWithAudio
\* mutant of SubtitleTimer: the gap does not clear the text and the next chunk
\* is appended to it
SubtitleTimer_Append(s) ==
  LET n == Len(sess[s].chunks)
      p == sess[s].sub
      i == (p + 1) \div 2
  IN /\ IsNarration(s) /\ Mounted(s) /\ p >= 1 /\ p < 2 * n
     /\ sess' = [sess EXCEPT ![s].sub = p + 1]
     /\ currentSubtitle' =
          IF p % 2 = 0 THEN currentSubtitle \o " " \o sess[s].chunks[i + 1]
          ELSE currentSubtitle
     /\ UNCHANGED <<call, appVars, inst, cur, stage, countdown, name, isProcessing,
                    subtitleOpacity, fadeOwner, pendingTaps, pVars, soundRef, nSess>>

\* sub = 0: not started; 2i-1: chunk i shown, its timer pending; 2i: the gap after
\* chunk i, its timer pending; 2n: the loop has ended.  Once the instance is
\* unmounted the remaining callbacks call setCurrentSubtitle on an unmounted
\* component, which changes nothing: those steps are left out.
SubtitleTimer(s) ==
  LET n == Len(sess[s].chunks)
      p == sess[s].sub
      i == (p + 1) \div 2
  IN /\ IsNarration(s) /\ Mounted(s) /\ p >= 1 /\ p < 2 * n
     /\ sess' = [sess EXCEPT ![s].sub = p + 1]
     /\ currentSubtitle' =
          IF p % 2 = 0 THEN sess[s].chunks[i + 1]
          ELSE IF i < n THEN ""
          ELSE currentSubtitle
     /\ UNCHANGED <<call, appVars, inst, cur, stage, countdown, name, isProcessing,
                    subtitleOpacity, fadeOwner, pendingTaps, pVars, soundRef, nSess>>


\* ------------------------------------------------------------- App, AvatarPage
\* the avatar creator reports the exported avatar: onAvatarExported
onAvatarExported(id) ==
  /\ CurScreen = "creator"
  /\ AppUpdate(showWelcome, showTraining, id, userName, sess)

\* mutant of handleAccept: the accept effect runs for both of its dependencies
\* and posts the command each time
handleAccept_SendsTwice ==
  /\ CurScreen = "avatar" /\ ~accepted
  /\ accepted' = TRUE
  /\ IF ~hasPlayedGreeting
     THEN /\ nSess < MaxSessions
          /\ hasPlayedGreeting' = TRUE
          /\ nSess' = nSess + 1
          /\ toSurface' = toSurface \o <<JSONstringify("switchToTalking"),
                                         JSONstringify("switchToTalking")>>
          /\ sess' = [sess EXCEPT ![nSess + 1] = NewSession("avatar", cur, <<>>, "")]
     ELSE UNCHANGED <<hasPlayedGreeting, toSurface, nSess, sess>>
  /\ UNCHANGED <<call, appVars, inst, cur, wVars, greetingComplete, error, loading,
                 avatarGender, genderPending, surface, toHost, soundRef>>

\* "Accept": handleAccept, then Avatar3D's accept effect: setHasPlayedGreeting,
\* post switchToTalking, call playGreeting (up to its first await)
handleAccept ==
  /\ CurScreen = "avatar" /\ ~accepted
  /\ accepted' = TRUE
  /\ IF ~hasPlayedGreeting
     THEN /\ nSess < MaxSessions
          /\ hasPlayedGreeting' = TRUE
          /\ nSess' = nSess + 1
          /\ toSurface' = Append(toSurface, JSONstringify("switchToTalking"))
          /\ sess' = [sess EXCEPT ![nSess + 1] = NewSession("avatar", cur, <<>>, "")]
     ELSE UNCHANGED <<hasPlayedGreeting, toSurface, nSess, sess>>
  /\ UNCHANGED <<call, appVars, inst, cur, wVars, greetingComplete, error, loading,
                 avatarGender, genderPending, surface, toHost, soundRef>>

\* "Change Avatar": clearAvatar = setAvatarId("")
\* mutant of clearAvatar: the callback is also run while the training screen is up
clearAvatar_Anywhere ==
  /\ CurScreen \in {"avatar", "training"}
  /\ AppUpdate(showWelcome, showTraining, "", userName, sess)

clearAvatar ==
  /\ CurScreen = "avatar"
  /\ AppUpdate(showWelcome, showTraining, "", userName, sess)

\* mutant of handleContinue: the page's onPress is handleContinue at all times
handleContinue_Ungated ==
  /\ CurScreen = "avatar"
  /\ AppUpdate(showWelcome, TRUE, avatarId, userName, sess)

\* a tap on the avatar page once the greeting is complete: onShowTraining
handleContinue ==
  /\ CurScreen = "avatar" /\ greetingComplete
  /\ AppUpdate(showWelcome, TRUE, avatarId, userName, sess)

\* mutant of handleTrainingComplete: the tap is taken in stage speaking as well
handleTrainingComplete_AnyStage ==
  /\ CurScreen = "training"
  /\ AppUpdate(TRUE, FALSE, UNDEF, UNDEF, sess)

\* mutant of handleTrainingComplete: the avatar and the name are kept
handleTrainingComplete_KeepAvatar ==
  /\ CurScreen = "training" /\ stage = "continue"
  /\ AppUpdate(TRUE, FALSE, avatarId, userName, sess)

\* a tap on the training screen in stage continue: handleTrainingComplete
handleTrainingComplete ==
  /\ CurScreen = "training" /\ stage = "continue"
  /\ AppUpdate(TRUE, FALSE, UNDEF, UNDEF, sess)

\* ------------------------------------------------------ playGreeting (Avatar3D)
\* onGreetingComplete(): AvatarPage's setGreetingComplete(true)
GreetingCompleted(s, r) ==
  /\ sess' = [sess EXCEPT ![s] = [r EXCEPT !.fin = @ + 1, !.pc = "done"]]
  /\ greetingComplete' = IF Mounted(s) THEN TRUE ELSE greetingComplete
  /\ UNCHANGED <<call, appVars, inst, cur, wVars, accepted, hasPlayedGreeting, sVars,
                 soundRef, nSess>>

\* setAudioModeAsync, fetch, arrayBuffer, the file write and createAsync resolve
\* (none of them reads or writes shared state): the sound plays and the status
\* listener is registered
GreetingPlay(s) ==
  /\ sess[s].kind = "avatar" /\ sess[s].pc = "mode"
  /\ sess' = [sess EXCEPT ![s].pc = "listen", ![s].snd = "playing"]
  /\ UNCHANGED <<call, appVars, instVars, soundRef, nSess>>

\* an awaited call throws, or the response is not OK: the catch block
GreetingFail(s, why) ==
  /\ sess[s].kind = "avatar" /\ sess[s].pc = "mode"
  /\ GreetingCompleted(s, [sess[s] EXCEPT !.fail = why])

\* didJustFinish: sound.unloadAsync(), onGreetingComplete()
GreetingPlaybackFinished(s) ==
  /\ sess[s].kind = "avatar" /\ sess[s].pc = "listen" /\ sess[s].snd = "playing"
  /\ GreetingCompleted(s, [sess[s] EXCEPT !.snd = "unloaded"])

\* ------------------------------------------------------ Avatar3D: gender, WebView
\* String.prototype.includes
includes(s, sub) ==
  \E i \in 1..(Len(s) - Len(sub) + 1) : SubSeq(s, i, i + Len(sub) - 1) = sub

\* what the metadata request of detectGender can come to
GenderOutcomes == {"ok", "notOk", "throws"}

\* detectGender's request settles: setAvatarGender
GenderResolved(outcome) ==
  /\ CurScreen = "avatar" /\ genderPending
  /\ genderPending' = FALSE
  /\ avatarGender' =
       IF /\ outcome = "ok"
          /\ \/ Metadata(avatarId).outfitGender = "feminine"
             \/ Metadata(avatarId).bodyType = "feminine"
       THEN "female" ELSE "male"
  /\ UNCHANGED <<call, appVars, inst, cur, wVars, accepted, greetingComplete,
                 hasPlayedGreeting, error, loading, surface, toSurface, toHost,
                 soundRef, nSess, sess>>

\* texts of the errors the page's loaders and script can raise
ErrorTexts == {"Failed to fetch", "Avatar loaded without scene"}

\* the commands a payload can name, and payloads the page's window can be sent
\* by something else than Avatar3D
CommandNames  == {"switchToTalking", "wave"}
StrayPayloads == {"hello", "null", JSONstringify("wave")}

\* JSON.parse on the payloads above: an object with its action, null, or a throw
JSONparse(p) ==
  IF \E a \in CommandNames : p = JSONstringify(a)
  THEN [ok |-> TRUE, kind |-> "object",
        action |-> CHOOSE a \in CommandNames : p = JSONstringify(a)]
  ELSE IF p = "null" THEN [ok |-> TRUE, kind |-> "null", action |-> ""]
  ELSE [ok |-> FALSE, kind |-> "none", action |-> ""]

\* the page's state after window.ReactNativeWebView.postMessage of msgs and sf
SurfaceStep(sf, msgs) ==
  /\ CurScreen = "avatar"
  /\ surface' = sf
  /\ toHost' = toHost \o msgs
  /\ UNCHANGED <<call, appVars, inst, cur, wVars, accepted, greetingComplete,
                 hasPlayedGreeting, error, loading, avatarGender, genderPending, toSurface,
                 soundRef, nSess, sess>>

\* the page's script runs to its end: the avatar load starts, 'Scene ready' is
\* posted, the message listener is registered
ScriptRuns ==
  /\ surface.script = "loading"
  /\ SurfaceStep([surface EXCEPT !.script = "ready", !.avatar = "pending"],
                 <<"Starting initialization", "Scene ready">>)

\* the script throws during set-up: the outer catch posts 'Fatal error: ...'.
\* A throw after loader.load (late), in the first animate() frame, leaves the
\* avatar's load running; the message listener is not registered either way.
ScriptFatal(e, late) ==
  /\ surface.script = "loading"
  /\ SurfaceStep([surface EXCEPT !.script = "fatal",
                                  !.avatar = IF late THEN "pending" ELSE @],
                 <<"Starting initialization", "Fatal error: " \o e>>)

\* the avatar model loads: it is added to the scene, the dance clip's load starts
AvatarLoaded ==
  /\ surface.avatar = "pending"
  /\ SurfaceStep([surface EXCEPT !.avatar = "loaded", !.dance = "pending"],
                 <<"Avatar loaded">>)

AvatarLoadFailed(e) ==
  /\ surface.avatar = "pending"
  /\ SurfaceStep([surface EXCEPT !.avatar = "failed"], <<"Avatar error: " \o e>>)

\* the dance clip loads: the mixer is created and plays it
DanceLoaded ==
  /\ surface.dance = "pending"
  /\ SurfaceStep([surface EXCEPT !.dance = "loaded", !.mixer = TRUE, !.clip = "dance"],
                 <<"Animation loaded">>)

DanceFailed ==
  /\ surface.dance = "pending"
  /\ SurfaceStep([surface EXCEPT !.dance = "failed"],
                 <<"Animation skipped - avatar still interactive!">>)

\* mutant of Listener: the handler has no try / catch
Listener_NoCatch(sf, p) ==
  LET message == JSONparse(p)
  IN IF ~message.ok \/ message.kind = "null"
     THEN [sf EXCEPT !.heard = p, !.raised = TRUE]
     ELSE IF message.action = "switchToTalking"
          THEN [sf EXCEPT !.heard = p, !.camera = "portrait", !.talk = "pending"]
          ELSE [sf EXCEPT !.heard = p]

\* mutant of Listener: every parsed command is handled as switchToTalking
Listener_AnyAction(sf, p) ==
  LET message == JSONparse(p)
  IN IF ~message.ok \/ message.kind = "null"
     THEN [sf EXCEPT !.heard = p]
     ELSE [sf EXCEPT !.heard = p, !.camera = "portrait", !.talk = "pending"]

\* the page's 'message' listener on payload p: JSON.parse or the read of
\* message.action may throw inside the try, the catch logs it
Listener(sf, p) ==
  LET message == JSONparse(p)
  IN IF ~message.ok \/ message.kind = "null"
     THEN [sf EXCEPT !.heard = p]
     ELSE IF message.action = "switchToTalking"
          THEN [sf EXCEPT !.heard = p, !.camera = "portrait", !.talk = "pending"]
          ELSE [sf EXCEPT !.heard = p]

\* a posted payload is dispatched in the page; nobody hears it before the
\* listener is registered
DeliverToSurface ==
  /\ CurScreen = "avatar" /\ toSurface # <<>>
  /\ toSurface' = Tail(toSurface)
  /\ surface' = IF surface.script = "ready" THEN Listener(surface, Head(toSurface))
                ELSE surface
  /\ UNCHANGED <<call, appVars, inst, cur, wVars, accepted, greetingComplete,
                 hasPlayedGreeting, error, loading, avatarGender, genderPending, toHost,
                 soundRef, nSess, sess>>

\* something else than Avatar3D sends the page's window a message
WindowMessage(p) ==
  /\ CurScreen = "avatar" /\ Len(toSurface) < MaxPending
  /\ toSurface' = Append(toSurface, p)
  /\ UNCHANGED <<call, appVars, inst, cur, wVars, accepted, greetingComplete,
                 hasPlayedGreeting, error, loading, avatarGender, genderPending, surface, toHost,
                 soundRef, nSess, sess>>

\* the talking clip loads: it replaces the running clip if there is a mixer
TalkLoaded ==
  /\ surface.talk = "pending"
  /\ SurfaceStep([surface EXCEPT !.talk = "loaded",
                                  !.clip = IF surface.mixer THEN "talking" ELSE @], <<>>)

TalkFailed ==
  /\ surface.talk = "pending"
  /\ SurfaceStep([surface EXCEPT !.talk = "failed"], <<>>)

\* mutant of onMessage: the error is cleared first and set afterwards
onMessage_ErrorLast(err, message) ==
  LET e1 == IF includes(message, "Avatar loaded") \/ includes(message, "Scene ready")
            THEN NULL ELSE err
  IN IF includes(message, "Failed") \/ includes(message, "Fatal") THEN message ELSE e1

\* Avatar3D's onMessage: the error state its two setError calls leave
onMessage(err, message) ==
  LET e1 == IF includes(message, "Failed") \/ includes(message, "Fatal")
            THEN message ELSE err
  IN IF includes(message, "Avatar loaded") \/ includes(message, "Scene ready")
     THEN NULL ELSE e1

\* the WebView hands Avatar3D the next message of the page
HostOnMessage ==
  /\ CurScreen = "avatar" /\ toHost # <<>>
  /\ toHost' = Tail(toHost)
  /\ error' = onMessage(error, Head(toHost))
  /\ UNCHANGED <<call, appVars, inst, cur, wVars, accepted, greetingComplete,
                 hasPlayedGreeting, loading, avatarGender, genderPending, surface, toSurface,
                 soundRef, nSess, sess>>

\* the WebView has loaded the page, whose script has run: onLoad
WebViewLoaded ==
  /\ CurScreen = "avatar" /\ surface.script \in {"ready", "fatal"} /\ loading
  /\ loading' = FALSE
  /\ UNCHANGED <<call, appVars, inst, cur, wVars, accepted, greetingComplete,
                 hasPlayedGreeting, error, avatarGender, genderPending, surface,
                 toSurface, toHost, soundRef, nSess, sess>>

\* the WebView fails to load the page: onError
WebViewError ==
  /\ CurScreen = "avatar" /\ surface.script = "loading"
  /\ surface' = [surface EXCEPT !.script = "failed"]
  /\ error' = "Failed to load 3D viewer"
  /\ loading' = FALSE
  /\ UNCHANGED <<call, appVars, inst, cur, wVars, accepted, greetingComplete,
                 hasPlayedGreeting, avatarGender, genderPending, toSurface, toHost,
                 soundRef, nSess, sess>>

\* ------------------------------------------------------------ specification
\* The onboarding flow.  The WebView page and the gender request write only
\* error, avatarGender and the page's own state, which no step of the flow
\* reads; their steps are taken in SurfaceSpec.  A name submission delivered
\* twice before the re-render is taken in SubmitSpec.
Next ==
  \/ handleInitialClick
  \/ AudioModeResolved
  \/ CountdownTick
  \/ \E n \in NameInputs : onChangeText(n)
  \/ handleSubmitName
  \/ \E s \in Sessions : FetchOk(s)
  \/ \E s \in Sessions, why \in FailKinds : FetchFail(s, why)
  \/ \E s \in Sessions : UnloadOk(s)
  \/ \E s \in Sessions : CreateOk(s)
  \/ \E s \in Sessions, d \in Durations : StatusOk(s, d)
  \/ \E s \in Sessions : LoadFail(s)
  \/ \E s \in Sessions : PlaybackFinished(s)
  \/ \E s \in Sessions : FadeDone(s)
  \/ \E s \in Sessions : TimerFire(s)
  \/ \E s \in Sessions : SubtitleTimer(s)
  \/ \E id \in AvatarIds : onAvatarExported(id)
  \/ handleAccept
  \/ clearAvatar
  \/ handleContinue
  \/ handleTrainingComplete
  \/ \E s \in Sessions : GreetingPlay(s)
  \/ \E s \in Sessions, why \in FailKinds : GreetingFail(s, why)
  \/ \E s \in Sessions : GreetingPlaybackFinished(s)

Spec == Init /\ [][Next]_vars


\* the scheduling the runtime guarantees: an animation's end callback and an
\* armed setTimeout are eventually delivered
Fairness == \A s \in Sessions : WF_vars(FadeDone(s)) /\ WF_vars(TimerFire(s))

FairSpec == Spec /\ Fairness

\* --------------------------------------------------- the avatar page in detail
\* a narration session of the welcome screen that ran to its end and whose sound
\* was unloaded
EndedSession(kind, text, firstName, prev) ==
  [NoSession EXCEPT !.kind = kind, !.inst = 1, !.pc = "done", !.fin = 1,
                    !.snd = "unloaded", !.prev = prev, !.firstName = firstName,
                    !.voice = AriaVoice, !.dur = "known",
                    !.chunks = Take(splitIntoChunks(text), MaxChunks),
                    !.sub = 2 * Len(Take(splitIntoChunks(text), MaxChunks))]

\* the avatar page right after its first mount: the welcome screen ran its two
\* narrations for the name "Al Bo", the creator exported an avatar
SurfaceInit ==
  /\ showWelcome = FALSE /\ showTraining = FALSE
  /\ avatarId \in AvatarIds /\ userName = "Al"
  /\ inst = 2 /\ cur = 2
  /\ stage = "none" /\ countdown = CountdownStart
  /\ currentSubtitle = "" /\ name = "" /\ isProcessing = FALSE
  /\ subtitleOpacity = 0 /\ fadeOwner = 0 /\ pendingTaps = 0
  /\ accepted = FALSE /\ greetingComplete = FALSE /\ hasPlayedGreeting = FALSE
  /\ error = NULL /\ loading = TRUE /\ avatarGender = "male" /\ genderPending = TRUE
  /\ surface = NoSurface /\ toSurface = <<>> /\ toHost = <<>>
  /\ soundRef = [i \in Instances |-> IF i = 1 THEN 2 ELSE 0]
  /\ nSess = 2
  /\ sess = [s \in Sessions |->
               IF s = 1 THEN EndedSession("intro", introText, "", 0)
               ELSE IF s = 2 THEN EndedSession("greet", greetingText("Al"), "Al", 1)
               ELSE NoSession]
  /\ call = NoCall

SurfaceNext ==
  \/ \E outcome \in GenderOutcomes : GenderResolved(outcome)
  \/ ScriptRuns
  \/ \E e \in ErrorTexts, late \in BOOLEAN : ScriptFatal(e, late)
  \/ WebViewLoaded
  \/ WebViewError
  \/ AvatarLoaded
  \/ \E e \in ErrorTexts : AvatarLoadFailed(e)
  \/ DanceLoaded
  \/ DanceFailed
  \/ \E p \in StrayPayloads : WindowMessage(p)
  \/ DeliverToSurface
  \/ TalkLoaded
  \/ TalkFailed
  \/ HostOnMessage
  \/ handleAccept
  \/ \E s \in Sessions : GreetingPlay(s)
  \/ \E s \in Sessions, why \in FailKinds : GreetingFail(s, why)
  \/ \E s \in Sessions : GreetingPlaybackFinished(s)
  \/ clearAvatar

SurfaceSpec == SurfaceInit /\ [][SurfaceNext]_vars

\* ------------------------------------------------ the name input in detail
\* the welcome screen in stage input: the introduction has run to its end, its
\* sound has finished and is still held in soundRef
SubmitInit ==
  /\ showWelcome = TRUE /\ showTraining = FALSE
  /\ avatarId = UNDEF /\ userName = UNDEF
  /\ inst = 1 /\ cur = 1
  /\ stage = "input" /\ countdown = 0
  /\ currentSubtitle = LET chunks == Take(splitIntoChunks(introText), MaxChunks)
                       IN chunks[Len(chunks)]
  /\ name = "" /\ isProcessing = FALSE
  /\ subtitleOpacity = 0 /\ fadeOwner = 0 /\ pendingTaps = 0
  /\ accepted = FALSE /\ greetingComplete = FALSE /\ hasPlayedGreeting = FALSE
  /\ error = NULL /\ loading = FALSE /\ avatarGender = "male" /\ genderPending = FALSE
  /\ surface = NoSurface /\ toSurface = <<>> /\ toHost = <<>>
  /\ soundRef = [i \in Instances |-> IF i = 1 THEN 1 ELSE 0]
  /\ nSess = 1
  /\ sess = [s \in Sessions |->
               IF s = 1
               THEN [EndedSession("intro", introText, "", 0) EXCEPT !.snd = "finished"]
               ELSE NoSession]
  /\ call = NoCall

\* the steps of the welcome screen from stage input on, with a submission that
\* is delivered twice before the screen re-renders
SubmitNext ==
  \/ \E n \in NameInputs : onChangeText(n)
  \/ handleSubmitName
  \/ handleSubmitNameTwice
  \/ \E s \in Sessions : FetchOk(s)
  \/ \E s \in Sessions, why \in FailKinds : FetchFail(s, why)
  \/ \E s \in Sessions : UnloadOk(s)
  \/ \E s \in Sessions : CreateOk(s)
  \/ \E s \in Sessions, d \in Durations : StatusOk(s, d)
  \/ \E s \in Sessions : LoadFail(s)
  \/ \E s \in Sessions : PlaybackFinished(s)
  \/ \E s \in Sessions : FadeDone(s)
  \/ \E s \in Sessions : TimerFire(s)
  \/ \E s \in Sessions : SubtitleTimer(s)

SubmitSpec == SubmitInit /\ [][SubmitNext]_vars

\* -------------------------------------------- the subtitle pipeline on its own
\* Array.prototype.join
RECURSIVE Join(_, _)
Join(seq, sep) ==
  IF Len(seq) = 0 THEN ""
  ELSE IF Len(seq) = 1 THEN seq[1]
  ELSE seq[1] \o sep \o Join(Tail(seq), sep)

\* the words the input texts are built from: the empty word (a leading, trailing
\* or doubled space), a short word, a 24-letter word and a 51-letter word
ShortWord == "ab"
MidWord   == "abababababababababababab"
LongWord  == "aaaaaaaaaaaaaaaaaaaaaaaaaaaaaaaaaaaaaaaaaaaaaaaaaaa"
InputWords == {"", ShortWord, MidWord, LongWord}

WordSeqs == UNION {[1..n -> InputWords] : n \in 0..MaxWords}
InputTexts == {Join(ws, " ") : ws \in WordSeqs}

\* chunk.split(" ").length
wordCount(chunk) == Len(split(chunk))

\* chunks.reduce((sum, chunk) => sum + chunk.split(" ").length, 0)
RECURSIVE totalWords(_)
totalWords(chunks) ==
  IF chunks = <<>> THEN 0 ELSE wordCount(Head(chunks)) + totalWords(Tail(chunks))

\* mutant of ChunkDuration: calculateChunkDuration's fixed 400 ms per word
ChunkDuration_FixedRate(chunks, audioDurationMs, i) ==
  [num |-> wordCount(chunks[i]) * 400, den |-> 1]

\* the delay of chunk i's timer: wordCount * msPerWord with msPerWord =
\* audioDurationMs / totalWords, kept as an exact fraction num / den
ChunkDuration(chunks, audioDurationMs, i) ==
  LET msPerWord == [num |-> audioDurationMs, den |-> totalWords(chunks)]
  IN [num |-> wordCount(chunks[i]) * msPerWord.num, den |-> msPerWord.den]

FnInit ==
  /\ ProgInit
  /\ call \in {[NoCall EXCEPT !.pc = "split", !.text = text, !.D = d] :
                 text \in InputTexts, d \in Durations \ {0}}

progVars == <<appVars, instVars, soundRef, nSess, sess>>

\* const chunks = splitIntoChunks(text)
SplitCall ==
  /\ call.pc = "split"
  /\ call' = [call EXCEPT !.pc = "show", !.chunks = splitIntoChunks(call.text)]
  /\ UNCHANGED progVars

\* mutant of ShowChunk: the display is cleared after every chunk
ShowChunk_ClearAfterLast ==
  /\ call.pc = "show" /\ call.i < Len(call.chunks)
  /\ call' = [call EXCEPT !.i = @ + 1,
                          !.shown = Append(@, ChunkDuration(call.chunks, call.D, call.i + 1)),
                          !.display = @ \o <<call.chunks[call.i + 1], "">>,
                          !.gaps = Append(@, GapMs)]
  /\ UNCHANGED progVars

\* one round of showSubtitlesWithAudio's loop: chunk i + 1 is shown for its
\* duration, then, unless it is the last, the display is cleared for the gap
ShowChunk ==
  /\ call.pc = "show" /\ call.i < Len(call.chunks)
  /\ LET last == call.i + 1 = Len(call.chunks)
     IN call' = [call EXCEPT
                   !.i = @ + 1,
                   !.shown = Append(@, ChunkDuration(call.chunks, call.D, call.i + 1)),
                   !.display = @ \o (IF last THEN <<call.chunks[call.i + 1]>>
                                      ELSE <<call.chunks[call.i + 1], "">>),
                   !.gaps = IF last THEN @ ELSE Append(@, GapMs)]
  /\ UNCHANGED progVars

\* the loop ends
ShowDone ==
  /\ call.pc = "show" /\ call.i = Len(call.chunks)
  /\ call' = [call EXCEPT !.pc = "done"]
  /\ UNCHANGED progVars

FnNext == SplitCall \/ ShowChunk \/ ShowDone

FnSpec == FnInit /\ [][FnNext]_vars

\* ------------------------------------------------------------ observations
Started(s) == sess[s].kind # "none"

\* the session has not signalled completion yet
InProgress(s) == Started(s) /\ sess[s].fin = 0

\* session s is started by this step
Starts(s) == sess[s].kind = "none" /\ sess'[s].kind # "none"

\* the sounds of instance i that are loaded
LoadedSounds(i) ==
  {s \in Sessions : sess[s].inst = i /\ sess[s].snd \in {"playing", "finished"}}

\* the subtitle text the screen shows: the <Text> holding currentSubtitle is
\* rendered in stage speaking (and in WelcomeScreen's stage input while
\* processing), inside a view whose opacity is subtitleOpacity
Displayed ==
  IF /\ subtitleOpacity = 1
     /\ \/ stage = "speaking"
        \/ CurScreen = "welcome" /\ stage = "input" /\ isProcessing
  THEN currentSubtitle
  ELSE ""

\* the chunks of the narrations of the screens
FirstNames == {split(trim(n))[1] : n \in {m \in NameInputs : trim(m) # ""}}
introChunks == splitIntoChunks(introText)
trainingChunks == splitIntoChunks(trainingText)
greetingChunks == UNION {{splitIntoChunks(greetingText(f))[k] :
                            k \in 1..Len(splitIntoChunks(greetingText(f)))} : f \in FirstNames}
WelcomeChunkSet == {introChunks[k] : k \in 1..Len(introChunks)} \cup greetingChunks
TrainingChunkSet == {trainingChunks[k] : k \in 1..Len(trainingChunks)}

\* ------------------------------------------------------------------ claims

\* C1: every started session invokes its completion callback exactly once: never
\* twice, and it is never left with no way to invoke it (waiting for a
\* didJustFinish report that can no longer arrive).
C1_CompletionExactlyOnce ==
  \A s \in Sessions :
    Started(s) =>
      /\ sess[s].fin <= 1
      /\ ~(sess[s].fin = 0 /\ sess[s].pc = "listen" /\ sess[s].snd # "playing")

\* C3: a session whose audio load failed after a successful synthesis (unloading
\* the previous sound, createAsync or getStatusAsync threw) has invoked its
\* completion callback, and is past its speaking wait.
C3_LoadFailureCompletes ==
  \A s \in Sessions :
    (sess[s].kind \in {"intro", "greet", "train"} /\ sess[s].fail = "load") =>
      sess[s].fin = 1 /\ sess[s].pc \in {"fade", "timer", "done"}

C3_Witness ==
  \E s \in Sessions :
    /\ sess[s].kind \in {"intro", "train"} /\ sess[s].fail = "load"
    /\ sess[s].snd = "playing" /\ sess[s].pc = "done" /\ Mounted(s)
    /\ stage \in {"input", "continue"}

\* C4: a WelcomeScreen or TrainingScreen instance has at most one loaded sound
\* at any time.
C4_AtMostOneLoadedSound ==
  \A i \in Instances : Cardinality(LoadedSounds(i)) <= 1

\* C5: the subtitle text is empty or exactly one chunk of a narration of the
\* mounted screen.
C5_SubtitleIsOneChunk ==
  \/ currentSubtitle = ""
  \/ CurScreen = "welcome" /\ currentSubtitle \in WelcomeChunkSet
  \/ CurScreen = "training" /\ currentSubtitle \in TrainingChunkSet

C5_Witness ==
  /\ CurScreen = "welcome" /\ isProcessing
  /\ currentSubtitle \in greetingChunks
  /\ \E s \in Sessions : sess[s].kind = "intro" /\ Mounted(s) /\ sess[s].sub \in {1, 2, 3}

\* C6: a session is never started on a screen while an earlier session of that
\* screen has not signalled completion.
C6_NoConcurrentSessions ==
  [][\A s \in Sessions :
       Starts(s) =>
         \A t \in Sessions \ {s} :
           (Started(t) /\ sess[t].inst = sess'[s].inst) => sess[t].fin >= 1]_vars

\* C7: no sound of an unmounted component is loaded or playing.
C7_UnmountReleasesAudio ==
  \A s \in Sessions :
    (Started(s) /\ ~Mounted(s)) => sess[s].snd \notin {"playing", "finished"}

\* C10: when the sound reports didJustFinish to the session's listener, the
\* completion callback runs in that step, wherever the subtitle sequence is.
C10_PlaybackEndCompletes ==
  [][\A s \in Sessions :
       (/\ sess[s].kind \in {"intro", "greet", "train"}
        /\ sess[s].pc = "listen"
        /\ sess[s].snd = "playing" /\ sess'[s].snd = "finished")
       => sess'[s].fin = sess[s].fin + 1 /\ sess'[s].pc = "fade"]_vars

C10_Witness ==
  \E s \in Sessions :
    /\ sess[s].kind \in {"intro", "greet", "train"}
    /\ sess[s].fail = "none" /\ sess[s].fin = 1
    /\ sess[s].sub >= 1 /\ sess[s].sub < 2 * Len(sess[s].chunks)


\* the synthesis request of session s failed
SynthFailed(s) == sess[s].fail \in {"http", "transport"}

\* the caller of session s has advanced the way it does on success (while its
\* component is still there to advance)
Advanced(s) ==
  IF sess[s].kind = "greet"
  THEN userName = sess[s].firstName /\ ~showWelcome
  ELSE \/ ~Mounted(s)
       \/ sess[s].kind = "intro" /\ stage = "input"
       \/ sess[s].kind = "train" /\ stage = "continue"
       \/ sess[s].kind = "avatar" /\ greetingComplete

\* C2: a session whose synthesis request failed (non-OK status or a thrown
\* error) has invoked its completion callback once, its caller's continuation
\* runs to its end, and the step that ends it advances the caller: stage input /
\* onComplete(firstName) / stage continue / greetingComplete.
C2_SynthesisFailureAdvances ==
  /\ [](\A s \in Sessions : SynthFailed(s) => sess[s].fin = 1)
  /\ \A s \in Sessions :
       (SynthFailed(s) /\ sess[s].pc # "done") ~> (sess[s].pc = "done" /\ Advanced(s))
  /\ [][\A s \in Sessions :
          (sess'[s].fail \in {"http", "transport"} /\ sess[s].pc # "done"
             /\ sess'[s].pc = "done")
          => Advanced(s)']_vars

C2_Witness ==
  \E s \in Sessions :
    /\ sess[s].kind = "greet" /\ sess[s].fail = "transport" /\ sess[s].pc = "done"
    /\ userName = "Al" /\ CurScreen = "creator"

\* a newer session was started on the screen of session t
Superseded(t) ==
  \E s \in Sessions : s > t /\ Started(s) /\ sess[s].inst = sess[t].inst

\* C8: when a session starts on a screen that already ran or runs one, the
\* displayed subtitle is empty right away, and a superseded session's subtitle
\* sequence makes no further display update.
C8_SupersessionClearsDisplay ==
  [][/\ \A s \in Sessions :
          (Starts(s) /\ \E t \in Sessions : Started(t) /\ sess[t].inst = sess'[s].inst)
          => Displayed' = ""
     /\ \A t \in Sessions :
          (Started(t) /\ Superseded(t) /\ sess'[t].sub # sess[t].sub)
          => currentSubtitle' = currentSubtitle]_vars

\* C9: when the synthesis call of a session returns a non-OK status, the
\* session has displayed no chunk, the displayed subtitle is empty up to and at
\* the completion callback, and the callback fires once.
C9_HttpFailureShowsNothing ==
  [][\A s \in Sessions :
       (/\ sess[s].kind \in {"intro", "greet", "train"}
        /\ sess[s].fail = "none" /\ sess'[s].fail = "http")
       => /\ sess'[s].fin = 1 /\ sess'[s].sub = 0
          /\ Displayed = "" /\ Displayed' = ""]_vars

\* ------------------------------------------------- claims on the pipeline
\* the words of the chunks, in order
RECURSIVE ChunkWordList(_)
ChunkWordList(chunks) ==
  IF chunks = <<>> THEN <<>> ELSE split(Head(chunks)) \o ChunkWordList(Tail(chunks))

NonEmptyWords(ws) == SelectSeq(ws, LAMBDA w : w # "")

\* C11: joining the chunks splitIntoChunks returns with single spaces gives back
\* the text.
C11_JoinRestoresText ==
  call.pc \in {"show", "done"} => Join(call.chunks, " ") = call.text

\* C12: every chunk is at most 50 characters long unless it is one single word
\* longer than that, and the chunks are made of whole words of the text, in order.
C12_ChunkLengthBound ==
  call.pc \in {"show", "done"} =>
    /\ \A k \in 1..Len(call.chunks) :
          \/ Len(call.chunks[k]) <= ChunkThreshold
          \/ wordCount(call.chunks[k]) = 1
    /\ NonEmptyWords(ChunkWordList(call.chunks)) = NonEmptyWords(split(call.text))

C12_Witness ==
  /\ call.pc = "show" /\ Len(call.chunks) = 3
  /\ call.chunks[1] = MidWord \o " " \o MidWord
  /\ call.chunks[2] = LongWord
  /\ call.chunks[3] = ShortWord

\* the sum of fractions, as a fraction
RECURSIVE FracSum(_)
FracSum(fs) ==
  IF fs = <<>> THEN [num |-> 0, den |-> 1]
  ELSE LET r == FracSum(Tail(fs))
       IN [num |-> Head(fs).num * r.den + r.num * Head(fs).den, den |-> Head(fs).den * r.den]

\* C13: chunk i is displayed for wordCount(i) * D / totalWordCount milliseconds,
\* and once a non-empty sequence has been shown the display durations sum to D.
C13_DurationsProportional ==
  /\ \A k \in 1..Len(call.shown) :
        call.shown[k].num * totalWords(call.chunks)
          = wordCount(call.chunks[k]) * call.D * call.shown[k].den
  /\ (call.pc = "done" /\ call.chunks # <<>>) =>
        FracSum(call.shown).num = call.D * FracSum(call.shown).den

C13_Witness ==
  /\ call.pc = "done" /\ call.D = 3000 /\ Len(call.chunks) = 2
  /\ wordCount(call.chunks[1]) = 2 /\ wordCount(call.chunks[2]) = 3
  /\ call.shown[1].num = 1200 * call.shown[1].den
  /\ call.shown[2].num = 1800 * call.shown[2].den

\* ------------------------------------------------- claims on the avatar page
\* a step that leaves the avatar page mounted
StaysOnAvatarPage == CurScreen = "avatar" /\ CurScreen' = "avatar" /\ cur' = cur

\* C14: the page's listener lets no exception out, and a payload that is not
\* parseable JSON (or parses to null) leaves camera, clips and loads as they were.
C14_MalformedPayloadDropped ==
  /\ [](surface.raised = FALSE)
  /\ [][(/\ StaysOnAvatarPage /\ surface.script = "ready"
          /\ toSurface # <<>> /\ toSurface' = Tail(toSurface)
          /\ Head(toSurface) \in {"hello", "null"})
         => /\ surface'.heard = Head(toSurface)
            /\ [surface' EXCEPT !.heard = ""] = [surface EXCEPT !.heard = ""]]_vars

C14_Witness ==
  /\ surface.script = "ready" /\ surface.heard = "null"
  /\ surface.camera = "full" /\ surface.clip = "dance"

\* C15: after onMessage handles m the error state is null if m contains "Avatar
\* loaded" or "Scene ready", else m if m contains "Failed" or "Fatal", else as before.
C15_ErrorStateAfterMessage ==
  [][(StaysOnAvatarPage /\ toHost # <<>> /\ toHost' = Tail(toHost))
     => LET m == Head(toHost)
        IN IF includes(m, "Avatar loaded") \/ includes(m, "Scene ready")
           THEN error' = NULL
           ELSE IF includes(m, "Failed") \/ includes(m, "Fatal")
                THEN error' = m
                ELSE error' = error]_vars

C15_Witness ==
  /\ hasPlayedGreeting /\ toHost = <<>>
  /\ surface.script = "fatal" /\ surface.avatar = "none" /\ error = NULL

\* C16: a switchToTalking command the page receives retargets the camera to the
\* portrait pose and starts the talking clip's load, and when that clip has
\* loaded it is the running clip.
C16_SwitchToTalkingSwapsClip ==
  [][/\ (/\ StaysOnAvatarPage /\ surface.script = "ready"
          /\ toSurface # <<>> /\ toSurface' = Tail(toSurface)
          /\ Head(toSurface) = JSONstringify("switchToTalking"))
         => surface'.camera = "portrait" /\ surface'.talk = "pending"
     /\ (StaysOnAvatarPage /\ surface.talk = "pending" /\ surface'.talk = "loaded")
         => surface'.clip = "talking"]_vars

\* C17: Avatar3D sends switchToTalking and starts the greeting only once the
\* page has registered its listener and signalled that it is ready.
C17_CommandAwaitsReady ==
  [][(StaysOnAvatarPage /\ ~hasPlayedGreeting /\ hasPlayedGreeting')
     => surface.script = "ready"]_vars

\* C18: the greeting of the mounted avatar page uses the female voice if the
\* avatar's metadata is feminine and the male voice otherwise.
C18_VoiceMatchesGender ==
  \A s \in Sessions :
    (sess[s].kind = "avatar" /\ Mounted(s)) =>
      sess[s].voice =
        IF \/ Metadata(avatarId).outfitGender = "feminine"
           \/ Metadata(avatarId).bodyType = "feminine"
        THEN FemaleVoice ELSE MaleVoice

\* the 'click the screen to continue' prompt of the avatar page is rendered
ContinuePromptShown == CurScreen = "avatar" /\ greetingComplete

\* C19: the training screen is only entered from an avatar page whose avatar was
\* accepted and whose greeting signalled completion; the greeting is complete
\* only after Accept, and the prompt is shown exactly while it is complete.
C19_TrainingAfterGreeting ==
  /\ [](greetingComplete => accepted /\ \E s \in Sessions :
                                           sess[s].kind = "avatar" /\ Mounted(s) /\ sess[s].fin = 1)
  /\ [](ContinuePromptShown <=> greetingComplete)
  /\ [][(~showTraining /\ showTraining') => (accepted /\ greetingComplete)]_vars

C19_Witness ==
  /\ CurScreen = "training"
  /\ \E s \in Sessions : sess[s].kind = "avatar" /\ sess[s].fin = 1
                           /\ sess[s].fail = "none"

\* C20: the step that ends the training screen leaves App in its initial state
\* and the welcome screen freshly mounted.
C20_RestartIsInitialState ==
  [][(showTraining /\ ~showTraining')
     => /\ showWelcome' /\ avatarId' = UNDEF /\ userName' = UNDEF
        /\ CurScreen' = "welcome" /\ stage' = "initial" /\ countdown' = CountdownStart
        /\ name' = "" /\ isProcessing' = FALSE /\ currentSubtitle' = ""]_vars

C20_Witness ==
  /\ CurScreen = "welcome" /\ inst > 1 /\ stage = "countdown"
  /\ avatarId = UNDEF /\ userName = UNDEF

\* ------------------------------------------------- claims on the session protocol
\* C21: every session of the four narrations has its text cut into subtitle
\* chunks to present, and while it listens for the end of playback its sound is
\* held by its screen, where the next session releases it.
C21_SameSessionProtocol ==
  \A s \in Sessions :
    Started(s) =>
      /\ sess[s].chunks # <<>>
      /\ sess[s].pc = "listen" => soundRef[sess[s].inst] # 0

\* C22: a session's subtitle sequence starts only in the step in which
\* getStatusAsync has resolved for a sound that is loaded and was started, and
\* once started it is never started again.
C22_SubtitlesAfterDuration ==
  [][\A s \in Sessions :
       /\ (sess[s].sub = 0 /\ sess'[s].sub # 0)
            => /\ sess'[s].sub = 1
               /\ sess[s].pc = "status" /\ sess'[s].pc = "listen"
               /\ sess[s].snd \in {"playing", "finished"}
       /\ (Started(s) /\ sess[s].sub # 0) => sess'[s].sub >= sess[s].sub /\
                                              (sess'[s].sub = 1 => sess[s].sub = 1)]_vars

C22_Witness ==
  \E s \in Sessions :
    /\ sess[s].kind = "intro" /\ sess[s].sub = 1 /\ sess[s].pc = "listen"
    /\ sess[s].snd = "playing" /\ currentSubtitle = sess[s].chunks[1]

\* C23: the display sequence of showSubtitlesWithAudio for chunks c1..cn is
\* c1, empty, c2, empty, ..., cn: each gap lasts 100 ms and the last chunk is
\* not cleared.
C23_DisplaySequence ==
  LET n == Len(call.chunks)
  IN /\ call.pc = "done" =>
          /\ Len(call.display) = (IF n = 0 THEN 0 ELSE 2 * n - 1)
          /\ \A k \in 1..Len(call.display) :
                call.display[k] = IF k % 2 = 1 THEN call.chunks[(k + 1) \div 2] ELSE ""
          /\ Len(call.gaps) = (IF n = 0 THEN 0 ELSE n - 1)
     /\ \A k \in 1..Len(call.gaps) : call.gaps[k] = 100
     /\ (call.pc = "show" /\ call.i > 0) =>
          call.display[Len(call.display)] = (IF call.i < n THEN "" ELSE call.chunks[n])

C23_Witness ==
  /\ call.pc = "done"
  /\ call.display = <<LongWord, "", MidWord \o " " \o ShortWord, "", LongWord>>

\* C24: of two consecutive chunks the first, a space and the first word of the
\* second are together longer than 50 characters, and a text of at most 50
\* characters is returned as one chunk equal to the text.
C24_GreedyChunks ==
  call.pc \in {"show", "done"} =>
    /\ \A k \in 1..(Len(call.chunks) - 1) :
          Len(call.chunks[k]) + 1 + Len(split(call.chunks[k + 1])[1]) > ChunkThreshold
    /\ Len(call.text) <= ChunkThreshold => call.chunks = <<call.text>>

\* ------------------------------------------------- claims on overlapping sessions
\* getStatusAsync of session t resolves in this step (its duration callback)
DurationReady(t) == sess[t].pc = "status" /\ sess'[t].pc = "listen"

\* the sound of session t plays to its end in this step
PlaybackEnds(t) == sess[t].snd = "playing" /\ sess'[t].snd = "finished"

\* C25: the duration or playback-finished callback of a session arriving after a
\* newer session was started on its screen changes neither the subtitle nor the
\* stage, and does not invoke the completion callback.
C25_StaleCallbacksIgnored ==
  [][\A t \in Sessions :
       (IsNarration(t) /\ Superseded(t) /\ (DurationReady(t) \/ PlaybackEnds(t)))
       => /\ currentSubtitle' = currentSubtitle
          /\ subtitleOpacity' = subtitleOpacity
          /\ stage' = stage
          /\ sess'[t].fin = sess[t].fin]_vars

\* the synthesis request of session s is in flight (playGreeting sends it once
\* Audio.setAudioModeAsync has resolved)
Requesting(s) == sess[s].pc \in {"fetch", "mode"}

\* C26: a session sends its synthesis request once: it never returns to the
\* request, and the step in which the request fails invokes the completion
\* callback and starts no session.
C26_SingleSynthesisAttempt ==
  [][\A s \in Sessions :
       /\ (Started(s) /\ ~Requesting(s)) => ~Requesting(s)'
       /\ (sess[s].fail = "none" /\ sess'[s].fail \in {"http", "transport"})
            => /\ Requesting(s) /\ ~Requesting(s)'
               /\ sess'[s].fin = sess[s].fin + 1
               /\ nSess' = nSess]_vars

C26_Witness ==
  \E s \in Sessions :
    /\ sess[s].kind = "train" /\ sess[s].fail = "http"
    /\ sess[s].fin = 1 /\ sess[s].pc = "done" /\ stage = "continue"

\* ------------------------------------------------- claims on the bridge
\* C27: a command with an unknown action leaves the page's camera, clips and
\* loads as they were and raises nothing, and a message of the page with none of
\* the four marker strings leaves Avatar3D's error and loading state as they were.
C27_UnknownMessagesIgnored ==
  [][/\ (/\ StaysOnAvatarPage /\ surface.script = "ready"
          /\ toSurface # <<>> /\ toSurface' = Tail(toSurface)
          /\ Head(toSurface) = JSONstringify("wave"))
         => /\ [surface' EXCEPT !.heard = ""] = [surface EXCEPT !.heard = ""]
            /\ surface'.heard = Head(toSurface) /\ ~surface'.raised
     /\ (/\ StaysOnAvatarPage /\ toHost # <<>> /\ toHost' = Tail(toHost)
          /\ \A marker \in {"Failed", "Fatal", "Avatar loaded", "Scene ready"} :
                ~includes(Head(toHost), marker))
         => error' = error /\ loading' = loading]_vars

C27_Witness ==
  /\ surface.script = "ready" /\ surface.heard = JSONstringify("wave")
  /\ surface.camera = "full" /\ surface.clip = "dance"
  /\ toHost = <<>> /\ error = NULL /\ ~loading

\* ------------------------------------------------- claims on races
\* C28: a narration whose sound has played to its end has invoked its completion
\* callback once its playback listener is registered.
C28_FinishedSoundCompletes ==
  \A s \in Sessions :
    (IsNarration(s) /\ sess[s].snd = "finished" /\ sess[s].pc = "listen")
    => sess[s].fin >= 1

\* C29: a WelcomeScreen instance starts the introduction at most once, in stage
\* countdown with the countdown at 0, and the stage never returns to countdown
\* from speaking or input.
C29_IntroductionStartsOnce ==
  /\ [](\A i \in Instances :
          Cardinality({s \in Sessions : sess[s].kind = "intro" /\ sess[s].inst = i}) <= 1)
  /\ [][/\ \A s \in Sessions :
             (Starts(s) /\ sess'[s].kind = "intro")
             => stage = "countdown" /\ countdown' = 0 /\ countdown = 1
        /\ countdown' \in {countdown, countdown - 1, CountdownStart}
        /\ stage \in {"speaking", "input"} => stage' # "countdown"]_vars

\* C30: a WelcomeScreen instance starts at most one greeting session, and its
\* onComplete is invoked at most once.
C30_GreetingStartsOnce ==
  \A i \in Instances :
    Cardinality({s \in Sessions : sess[s].kind = "greet" /\ sess[s].inst = i}) <= 1

\* ------------------------------------------------- claims on the flow
\* f is the first space-delimited token of input, leading spaces skipped
IsFirstToken(f, input) ==
  /\ f # "" /\ ~includes(f, " ")
  /\ \E i \in 1..Len(input) :
        /\ \A j \in 1..(i - 1) : SubSeq(input, j, j) = " "
        /\ SubSeq(input, i, i + Len(f) - 1) = f
        /\ i + Len(f) > Len(input) \/ SubSeq(input, i + Len(f), i + Len(f)) = " "

\* C31: a greeting session is started only for a name that is not empty after
\* trimming, the name passed to onComplete is the first token of the trimmed
\* input, and while the avatar page is shown userName is a non-empty first name.
C31_FirstNamePassedOn ==
  /\ [](CurScreen = "avatar" => userName \notin {UNDEF, ""} /\ ~includes(userName, " "))
  /\ [][/\ \A s \in Sessions :
             (Starts(s) /\ sess'[s].kind = "greet") => IsFirstToken(sess'[s].firstName, name)
        /\ (userName' # userName /\ userName' # UNDEF)
             => \E s \in Sessions : sess[s].kind = "greet" /\ sess[s].firstName = userName'
                                       /\ sess[s].fin >= 1]_vars

C31_Witness ==
  /\ CurScreen = "avatar" /\ userName = "Al"
  /\ \E s \in Sessions : sess[s].kind = "greet" /\ sess[s].firstName = "Al"

\* the switchToTalking commands posted to the WebView and not yet dispatched
PendingSwitches(q) ==
  Cardinality({k \in 1..Len(q) : q[k] = JSONstringify("switchToTalking")})

\* C32: an accepted Avatar3D has posted switchToTalking and started its greeting,
\* both in the step of the acceptance and once: the command is posted while the
\* greeting has not sent its request, and no later step posts the command or
\* starts a greeting.
C32_AcceptanceActsOnce ==
  /\ [](CurScreen = "avatar" =>
          /\ accepted => hasPlayedGreeting
          /\ Cardinality({s \in Sessions : sess[s].kind = "avatar" /\ Mounted(s)})
               = (IF hasPlayedGreeting THEN 1 ELSE 0))
  /\ [][StaysOnAvatarPage =>
          /\ hasPlayedGreeting => hasPlayedGreeting'
          /\ PendingSwitches(toSurface') > PendingSwitches(toSurface)
               => /\ ~accepted /\ accepted' /\ ~hasPlayedGreeting /\ hasPlayedGreeting'
                  /\ PendingSwitches(toSurface') = PendingSwitches(toSurface) + 1
                  /\ \E s \in Sessions : Starts(s) /\ sess'[s].kind = "avatar"
                                            /\ sess'[s].pc = "mode"
          /\ \A s \in Sessions :
               (Starts(s) /\ sess'[s].kind = "avatar")
               => PendingSwitches(toSurface') = PendingSwitches(toSurface) + 1]_vars

C32_Witness ==
  /\ CurScreen = "avatar" /\ accepted /\ greetingComplete
  /\ surface.heard = JSONstringify("switchToTalking") /\ toSurface = <<>>
  /\ \E s \in Sessions : sess[s].kind = "avatar" /\ Mounted(s) /\ sess[s].fin = 1
                           /\ sess[s].fail = "none"

C34_NoDurationStillCompletes ==
  /\ [](\A s \in Sessions :
          sess[s].dur = "none"
          => /\ sess[s].sub = 0
             /\ (sess[s].snd = "finished" /\ sess[s].pc = "listen") => sess[s].fin >= 1)
  /\ [][\A s \in Sessions :
          (sess[s].dur = "unknown" /\ sess'[s].dur = "none")
          => UNCHANGED <<currentSubtitle, subtitleOpacity>>]_vars

MountedComponent ==
  IF cur = 0 THEN "creator"
  ELSE IF stage = "none" THEN "avatar"
  ELSE IF stage = "continue" \/ \E s \in Sessions : sess[s].kind = "train" /\ Mounted(s)
       THEN "training"
  ELSE "welcome"

\* C36: the one mounted component is the screen selected in the order training,
\* welcome, avatar page, creator; while showTraining holds showWelcome is false
\* and avatarId is an avatar's id, and showTraining becomes true only on the
\* avatar page.
C36_OneScreenByPriority ==
  /\ [](/\ MountedComponent = (IF showTraining THEN "training"
                                ELSE IF showWelcome THEN "welcome"
                                ELSE IF avatarId \in AvatarIds THEN "avatar"
                                ELSE "creator")
        /\ showTraining => ~showWelcome /\ avatarId \in AvatarIds)
  /\ [][(~showTraining /\ showTraining')
         => MountedComponent = "avatar" /\ MountedComponent' = "training"]_vars

C36_Witness ==
  /\ showTraining /\ ~showWelcome /\ avatarId = "a2" /\ userName = "Al"
  /\ MountedComponent = "training" /\ stage = "speaking"

\* the training narrations of the mounted TrainingScreen
TrainingSessions ==
  {s \in Sessions : sess[s].kind = "train" /\ Mounted(s)}

\* C37: a mounted TrainingScreen has exactly one narration session, started by
\* the step that mounts it; its stage becomes continue only when that session
\* has signalled completion, stays continue until the screen is left, and the
\* screen is left (onComplete) only from stage continue.
C37_TrainingStages ==
  /\ [](CurScreen = "training" => Cardinality(TrainingSessions) = 1)
  /\ [][/\ \A s \in Sessions :
             (Starts(s) /\ sess'[s].kind = "train")
             => CurScreen # "training" /\ CurScreen' = "training" /\ stage' = "speaking"
        /\ (CurScreen = "training" /\ CurScreen' = "training")
             => /\ cur' = cur
                /\ (stage # "continue" /\ stage' = "continue")
                     => \E s \in TrainingSessions : sess[s].fin >= 1
                /\ stage = "continue" => stage' = "continue"
        /\ (showTraining /\ ~showTraining') => stage = "continue"]_vars

C37_Witness ==
  /\ CurScreen = "training" /\ stage = "continue"
  /\ \E s \in TrainingSessions : sess[s].fin = 1 /\ sess[s].fail = "none"
                                    /\ sess[s].sub = 2 * Len(sess[s].chunks)

====
